---- MODULE Spec2Model ----
(***************************************************************************)
(* Challenge coordination and scoring engine of arabic_bot_full.py:        *)
(* the struggle-word store, the /challenge command, the on_message answer  *)
(* listener, the expired-challenge sweeper and the points ledger, as one   *)
(* state machine.  Coroutines run on one asyncio event loop: a handler is  *)
(* atomic between two awaits, and an await is a step boundary.             *)
(***************************************************************************)
EXTENDS Integers, Sequences, FiniteSets, TLC

\* ------------------------------------------------------------ constants
\* who holds or waits for the lock: a task, the sweeper, or nobody
Nobody == 0
Sweeper == -1

CHALLENGE_TIMEOUT_SECONDS == 90
\* CHALLENGE_SIM_THRESHOLD = 0.50; scores are kept in hundredths
CHALLENGE_SIM_THRESHOLD == 50
POINTS_PER_CORRECT == 5
\* the points of a daily check-in
DONE_POINTS == 10

\* ------------------------------------------------------------ bounds
MaxGuilds == 1
MaxUsers == 1
MaxTasks == 2
MaxOpens == 2
MaxWordId == 1
MaxTime == 180

Guilds == 1..MaxGuilds
Users == 1..MaxUsers
Tasks == 1..MaxTasks
\* the clock is observed on a grid: a challenge issued on the grid is seen
\* before, exactly at and after its expiry
TickSizes == {CHALLENGE_TIMEOUT_SECONDS}

RawWords == {"kitab", "Kitab"}
Definitions == {"book"}
Answers == {"book", "car"}

\* ------------------------------------------------------------ text, vectors
\* str.lower()
Lower(s) ==
    CASE s = "Kitab" -> "kitab"
      [] s = "Book" -> "book"
      [] OTHER -> s

\* str.strip()
Strip(s) ==
    CASE s = " kitab" -> "kitab"
      [] s = "kitab " -> "kitab"
      [] s = " book " -> "book"
      [] OTHER -> s

\* embedding_model.encode: the external model, a fixed function of the text
\* to vectors of one length
Encode(text) ==
    CASE text = "book" -> <<3, 4, 0, 0>>
      [] text = "Book" -> <<4, 3, 0, 0>>
      [] text = "car" -> <<-4, 3, 0, 0>>
      [] text = "tome" -> <<7, 1, 5, 5>>
      [] text = "leaflet" -> <<4, 10, 18, 1>>
      [] text = "unbook" -> <<-3, -4, 0, 0>>
      [] text = "dog" -> <<1, 1, 0, 0>>
      [] OTHER -> <<0, 0, 0, 0>>

RECURSIVE Concat(_)
Concat(ss) == IF ss = <<>> THEN <<>> ELSE Head(ss) \o Concat(Tail(ss))

\* variant: an element written with half its width
ElemBytes_half(x) ==
    LET lo == x % 65536
    IN  << lo % 256, lo \div 256, 0, 0 >>

\* one float32 element as its 4 bytes, little-endian
ElemBytes(x) ==
    LET lo == x % 65536
        hi == (x \div 65536) % 65536
    IN  << lo % 256, lo \div 256, hi % 256, hi \div 256 >>

BytesElem(b) ==
    LET lo == b[1] + 256 * b[2]
        hi == b[3] + 256 * b[4]
    IN  IF hi >= 32768 THEN (hi - 65536) * 65536 + lo ELSE hi * 65536 + lo

\* arr.tobytes()
ToBytes(vec) == Concat([i \in 1..Len(vec) |-> ElemBytes(vec[i])])

\* embed_text(text) -> bytes
embed_text(text) == ToBytes(Encode(text))

\* get_embedding_array(blob): np.frombuffer(blob, dtype=np.float32);
\* "raise" (ValueError) when the size is not a multiple of the element size
get_embedding_array(blob) ==
    IF Len(blob) % 4 # 0 THEN [ok |-> FALSE, arr |-> <<>>]
    ELSE [ok |-> TRUE,
          arr |-> [i \in 1..(Len(blob) \div 4) |->
                     BytesElem(SubSeq(blob, 4 * i - 3, 4 * i))]]

RECURSIVE Dot(_, _)
Dot(a, b) == IF a = <<>> THEN 0 ELSE Head(a) * Head(b) + Dot(Tail(a), Tail(b))

ISqrt(n) == CHOOSE r \in 0..n : r * r <= n /\ (r + 1) * (r + 1) > n

Min(a, b) == IF a <= b THEN a ELSE b
Max(a, b) == IF a >= b THEN a ELSE b

\* a float result: nan marks the value that differs from itself, sim is the
\* value in hundredths otherwise
Float(x) == [nan |-> FALSE, sim |-> x]
NaN == [nan |-> TRUE, sim |-> 0]

\* sklearn cosine_similarity([a], [b])[0][0] in hundredths; a zero row is
\* left unnormalised, so its similarity is 0; "raise" on a shape mismatch.
\* The norms are rounded (down), so a result may leave [-1, 1] as a float32
\* result does.
CosineSimilarity(a, b) ==
    IF Len(a) # Len(b) THEN [ok |-> FALSE, val |-> Float(0)]
    ELSE LET na == ISqrt(Dot(a, a))
             nb == ISqrt(Dot(b, b))
         IN  [ok |-> TRUE,
              val |-> IF na = 0 \/ nb = 0 THEN Float(0)
                      ELSE Float((100 * Dot(a, b)) \div (na * nb))]

\* variant: the clamp without its lower bound and NaN guard
clamp_similarity_upper(sim) == Min(100, sim.sim)

\* "if sim != sim: return 0.0; return float(max(0.0, min(1.0, sim)))"
clamp_similarity(sim) ==
    IF sim.nan THEN 0 ELSE Max(0, Min(100, sim.sim))

\* variant: pop that removes nothing
Pop_keeps(d, k) == d

\* dict.pop(k, None) and dict[k] = v on a function used as a dict
Pop(d, k) == [x \in DOMAIN d \ {k} |-> d[x]]
Put(d, k, v) == [x \in DOMAIN d \cup {k} |-> IF x = k THEN v ELSE d[x]]
EmptyDict == [x \in {} |-> 0]

\* ------------------------------------------------------------ state
VARIABLES
    now,                       \* now_cst(), seconds
    struggle_words,            \* table struggle_words: set of rows
    struggle_embeddings,       \* table struggle_embeddings: set of rows
    word_seq,                  \* AUTOINCREMENT sequence of struggle_words
    struggle_embedding_cache,  \* dict struggle_id -> vector
    user_last_word,            \* dict _user_last_word: user_id -> struggle id
    active_challenges,         \* dict user_id -> challenge dict
    lock_holder,               \* _active_challenge_lock: who holds it
    lock_waiters,              \* _active_challenge_lock: FIFO of waiters
    points,                    \* table points: dict (guild_id, user_id) -> points
    tasks,                     \* the running handlers (coroutines)
    sweeper,                   \* the _challenge_sweeper loop
    next_inst,                 \* identity of the next challenge dict
    probe,                     \* a helper called on its own: arguments, result
    cursor,                    \* the shared cursor c: rows of its last execute
                               \* that were not fetched yet
    completions,               \* table completions: rows in insertion order
    streaks                    \* table streaks: dict (guild_id, user_id) -> row

vars == << now, struggle_words, struggle_embeddings, word_seq,
           struggle_embedding_cache, user_last_word, active_challenges,
           lock_holder, lock_waiters, points, tasks, sweeper, next_inst,
           probe, cursor, completions, streaks >>

store_vars == << struggle_words, struggle_embeddings, word_seq,
                 struggle_embedding_cache >>

\* the local "chal" of a handler that read no challenge
NoChal ==
    [ struggle_id |-> 0, definition |-> "", word |-> "", expires_at |-> 0,
      inst |-> 0 ]

IdleTask ==
    [ pc |-> "idle", guild |-> 0, user |-> 0, chal |-> NoChal, answer |-> "",
      raised |-> FALSE, score |-> 0, outcome |-> "", late |-> FALSE,
      word_gone |-> FALSE, awarded |-> 0, reaped |-> FALSE ]

\* no helper was called on its own
NoProbe == [op |-> "", sim |-> Float(0), raised |-> FALSE, score |-> 0]

\* the event loop thread executed statements on c and fetched their rows:
\* nothing is left to fetch
executed == cursor' = <<>>

Init ==
    /\ probe = NoProbe
    /\ now = 0
    /\ struggle_words = {}
    /\ struggle_embeddings = {}
    /\ word_seq = 0
    /\ struggle_embedding_cache = EmptyDict
    /\ user_last_word = EmptyDict
    /\ active_challenges = EmptyDict
    /\ lock_holder = Nobody
    /\ lock_waiters = <<>>
    /\ points = EmptyDict
    /\ tasks = [t \in Tasks |-> IdleTask]
    /\ sweeper = [pc |-> "idle", now |-> 0]
    /\ next_inst = 1
    /\ cursor = <<>>
    /\ completions = <<>>
    /\ streaks = EmptyDict

\* ------------------------------------------------------------ clock
Tick ==
    /\ \E d \in TickSizes :
          /\ now + d <= MaxTime
          /\ now' = now + d
    /\ UNCHANGED << struggle_words, struggle_embeddings, word_seq,
                    struggle_embedding_cache, user_last_word,
                    active_challenges, lock_holder, lock_waiters, points,
                    tasks, sweeper, next_inst,
                    probe, cursor,
                    completions, streaks >>

\* ------------------------------------------------------------ word store
\* get_user_struggle_words(guild_id, user_id)
get_user_struggle_words(g, u) ==
    { r \in struggle_words : r.guild_id = g /\ r.user_id = u }

\* add_struggle_word, called by /struggle_add.  embed_fails: the embedding
\* model raises inside embed_text, after the word row was committed.
add_struggle_word(g, u, word, definition, embed_fails) ==
    LET word_l == Lower(word)
        def_l == Lower(definition)
        struggle_id == word_seq + 1
        emb_bytes == embed_text(definition)
    IN  /\ IF \E r \in struggle_words :
                 r.guild_id = g /\ r.user_id = u /\ r.word = word_l
           THEN \* sqlite3.IntegrityError: return False
                UNCHANGED store_vars
           ELSE /\ struggle_words' = struggle_words \cup
                      { [ id |-> struggle_id, guild_id |-> g, user_id |-> u,
                          word |-> word_l, definition |-> def_l ] }
                /\ word_seq' = struggle_id
                /\ IF embed_fails
                   THEN UNCHANGED << struggle_embeddings,
                                     struggle_embedding_cache >>
                   ELSE /\ struggle_embeddings' = struggle_embeddings \cup
                              { [ struggle_id |-> struggle_id,
                                  embedding |-> emb_bytes ] }
                        /\ struggle_embedding_cache' =
                              Put(struggle_embedding_cache, struggle_id,
                                  get_embedding_array(emb_bytes).arr)

\* /struggle_add with a word and a definition of the given sets
struggle_add(words, definitions, max_id) ==
    /\ \E g \in Guilds, u \in Users, w \in words, d \in definitions,
          f \in BOOLEAN :
          \* the id sequence is bounded; a duplicate takes no id
          /\ \/ word_seq < max_id
             \/ \E r \in get_user_struggle_words(g, u) : r.word = Lower(w)
          /\ add_struggle_word(g, u, w, d, f)
    /\ UNCHANGED << now, user_last_word, active_challenges, lock_holder,
                    lock_waiters, points, tasks, sweeper, next_inst,
                    probe,
                    completions, streaks >>
    /\ executed

\* variant: the word is looked up without its owner
remove_struggle_word_anyowner(g, u, word) ==
    LET rows == { r \in struggle_words : r.word = Lower(word) }
        ids == { r.id : r \in rows }
    IN  [ ok |-> rows # {},
          words |-> struggle_words \ rows,
          embeddings |-> { e \in struggle_embeddings : e.struggle_id \notin ids },
          cache |-> struggle_embedding_cache ]

\* variant: the word row is deleted, its embedding row is left
remove_struggle_word_wordonly(g, u, word) ==
    LET rows == { r \in struggle_words :
                    r.guild_id = g /\ r.user_id = u /\ r.word = Lower(word) }
    IN  [ ok |-> rows # {},
          words |-> struggle_words \ rows,
          embeddings |-> struggle_embeddings,
          cache |-> struggle_embedding_cache ]

\* variant: no early return on a miss; the deletes match nothing
remove_struggle_word_blind(g, u, word) ==
    LET rows == { r \in struggle_words :
                    r.guild_id = g /\ r.user_id = u /\ r.word = Lower(word) }
        ids == { r.id : r \in rows }
    IN  [ ok |-> TRUE,
          words |-> struggle_words \ rows,
          embeddings |-> { e \in struggle_embeddings : e.struggle_id \notin ids },
          cache |-> struggle_embedding_cache ]

\* remove_struggle_word(guild_id, user_id, word): its return value and the
\* tables and the cache dict it leaves behind
remove_struggle_word(g, u, word) ==
    LET rows == { r \in struggle_words :
                    r.guild_id = g /\ r.user_id = u /\ r.word = Lower(word) }
    IN  IF rows = {}
        THEN [ ok |-> FALSE,
               words |-> struggle_words,
               embeddings |-> struggle_embeddings,
               cache |-> struggle_embedding_cache ]
        ELSE LET struggle_id == (CHOOSE r \in rows : TRUE).id
             IN  [ ok |-> TRUE,
                   words |-> { r \in struggle_words : r.id # struggle_id },
                   embeddings |-> { e \in struggle_embeddings :
                                      e.struggle_id # struggle_id },
                   cache |-> struggle_embedding_cache ]

\* /struggle_remove with a word of the given set
struggle_remove(words) ==
    /\ \E g \in Guilds, u \in Users, w \in words :
          LET r == remove_struggle_word(g, u, w)
          IN  /\ struggle_words' = r.words
              /\ struggle_embeddings' = r.embeddings
              /\ struggle_embedding_cache' = r.cache
    /\ UNCHANGED << now, word_seq, user_last_word, active_challenges,
                    lock_holder, lock_waiters, points, tasks, sweeper,
                    next_inst, probe,
                    completions, streaks >>
    /\ executed

\* ------------------------------------------------------------ selection
\* variant: the first candidate instead of a random one
get_random_struggle_word_first(g, u) ==
    LET rows == get_user_struggle_words(g, u)
        choices == { r \in rows :
                       u \notin DOMAIN user_last_word \/ r.id # user_last_word[u] }
        pool == IF choices # {} THEN choices ELSE rows
    IN  { r \in pool : \A q \in pool : r.id <= q.id }

\* variant: neither the single-word shortcut nor the fall-back to all rows
get_random_struggle_word_nofallback(g, u) ==
    { r \in get_user_struggle_words(g, u) :
        u \notin DOMAIN user_last_word \/ r.id # user_last_word[u] }

\* variant: the rows of the user in every guild
get_random_struggle_word_anyguild(g, u) ==
    LET rows == { r \in struggle_words : r.user_id = u }
        choices == { r \in rows :
                       u \notin DOMAIN user_last_word \/ r.id # user_last_word[u] }
    IN  IF rows = {} THEN {}
        ELSE IF Cardinality(rows) = 1 THEN rows
        ELSE IF choices # {} THEN choices ELSE rows

\* variant: the single-word shortcut taken for "no rows"
get_random_struggle_word_short(g, u) ==
    LET rows == get_user_struggle_words(g, u)
    IN  IF Cardinality(rows) <= 1 THEN {} ELSE rows

\* get_random_struggle_word(guild_id, user_id): the rows random.choice may
\* return; {} stands for the None result
get_random_struggle_word(g, u) ==
    LET rows == get_user_struggle_words(g, u)
        choices == { r \in rows :
                       u \notin DOMAIN user_last_word \/ r.id # user_last_word[u] }
    IN  IF rows = {} THEN {}
        ELSE IF Cardinality(rows) = 1 THEN rows
        ELSE IF choices # {} THEN choices ELSE rows

\* ------------------------------------------------------------ the lock
\* asyncio.Lock.acquire returns without yielding only when the lock is free
\* and nobody is queued for it
LockFree == lock_holder = Nobody /\ lock_waiters = <<>>

\* a queued waiter runs once the lock was released and it is first in line
Granted(p) ==
    lock_holder = Nobody /\ lock_waiters # <<>> /\ Head(lock_waiters) = p

SlotFree(t) == tasks[t].pc = "idle"

\* a handler takes the lowest free slot
Spawn(t) == SlotFree(t) /\ \A s \in Tasks : s < t => ~SlotFree(s)

\* ------------------------------------------------------------ /challenge
\* variant: the presence check never fires
already_active_never(u) == FALSE

\* "if user_id in active_challenges" of challenge()
already_active(u) == u \in DOMAIN active_challenges

\* the body of "async with _active_challenge_lock" in challenge(); rest is
\* the lock queue the step leaves behind
challenge_locked(t, g, u, rest) ==
    LET me == [IdleTask EXCEPT !.guild = g, !.user = u]
        picks == get_random_struggle_word(g, u)
    IN  /\ lock_waiters' = rest
        /\ IF already_active(u)
           THEN \* reply sent with the lock held
                /\ tasks' = [tasks EXCEPT ![t] =
                       [me EXCEPT !.pc = "ch_reply_active",
                                  !.outcome = "AlreadyActive"]]
                /\ lock_holder' = t
                /\ UNCHANGED << active_challenges, user_last_word, next_inst,
                                cursor >>
           ELSE IF picks = {}
           THEN /\ tasks' = [tasks EXCEPT ![t] =
                       [me EXCEPT !.pc = "ch_reply_nowords",
                                  !.outcome = "NoWords"]]
                /\ lock_holder' = t
                /\ executed
                /\ UNCHANGED << active_challenges, user_last_word, next_inst >>
           ELSE \E row \in picks :
                  LET entry == [ struggle_id |-> row.id,
                                 definition |-> row.definition,
                                 word |-> row.word,
                                 expires_at |-> now + CHALLENGE_TIMEOUT_SECONDS,
                                 inst |-> next_inst ]
                  IN  /\ user_last_word' = Put(user_last_word, u, row.id)
                      /\ active_challenges' = Put(active_challenges, u, entry)
                      /\ next_inst' = next_inst + 1
                      /\ lock_holder' = Nobody
                      /\ executed
                      /\ tasks' = [tasks EXCEPT ![t] =
                             [me EXCEPT !.pc = "ch_reply_question",
                                        !.chal = entry,
                                        !.outcome = "Opened"]]

\* opens still queued for the lock: each may yet install a challenge
QueuedOpens == Cardinality({ t \in Tasks : tasks[t].pc = "ch_wait_lock" })

\* /challenge arrives: up to the first await
challenge(t, g, u) ==
    /\ Spawn(t)
    /\ next_inst + QueuedOpens <= MaxOpens
    /\ IF LockFree
       THEN challenge_locked(t, g, u, lock_waiters)
       ELSE /\ tasks' = [tasks EXCEPT ![t] =
                   [IdleTask EXCEPT !.pc = "ch_wait_lock", !.guild = g,
                                    !.user = u]]
            /\ lock_waiters' = Append(lock_waiters, t)
            /\ UNCHANGED << active_challenges, user_last_word, next_inst,
                            lock_holder, cursor >>
    /\ UNCHANGED << now, struggle_words, struggle_embeddings, word_seq,
                    struggle_embedding_cache, points, sweeper,
                    probe,
                    completions, streaks >>

\* a queued /challenge gets the lock
challenge_resume(t) ==
    /\ tasks[t].pc = "ch_wait_lock"
    /\ Granted(t)
    /\ challenge_locked(t, tasks[t].guild, tasks[t].user, Tail(lock_waiters))
    /\ UNCHANGED << now, struggle_words, struggle_embeddings, word_seq,
                    struggle_embedding_cache, points, sweeper,
                    probe,
                    completions, streaks >>

\* interaction.response.send_message returns; leaving the "async with"
\* block releases the lock on the two rejection paths
challenge_replied(t) ==
    /\ tasks[t].pc \in {"ch_reply_active", "ch_reply_nowords", "ch_reply_question"}
    /\ tasks' = [tasks EXCEPT ![t] = IdleTask]
    /\ lock_holder' = IF lock_holder = t THEN Nobody ELSE lock_holder
    /\ UNCHANGED << now, struggle_words, struggle_embeddings, word_seq,
                    struggle_embedding_cache, user_last_word,
                    active_challenges, lock_waiters, points, sweeper,
                    next_inst,
                    probe, cursor,
                    completions, streaks >>

\* ------------------------------------------------------------ scoring
\* evaluate_answer(user_answer, correct_definition, struggle_id), run in a
\* worker thread, reading the dict cache_dict as struggle_embedding_cache.
\* encode_fails: embedding_model.encode raises.
\* The result: [raised, sim, score, cache], sim being the local of that name
\* and cache the embedding cache the call leaves behind.
evaluate_answer_on(cache_dict, user_answer, struggle_id, encode_fails) ==
    LET hit == struggle_id \in DOMAIN cache_dict
        rows == { e \in struggle_embeddings : e.struggle_id = struggle_id }
        blob == (CHOOSE e \in rows : TRUE).embedding
        got == get_embedding_array(blob)
        stored_vec == IF hit THEN cache_dict[struggle_id] ELSE got.arr
        cache == IF hit THEN cache_dict
                 ELSE Put(cache_dict, struggle_id, got.arr)
        cos == CosineSimilarity(stored_vec, Encode(user_answer))
    IN  IF ~hit /\ rows = {}
        THEN [raised |-> FALSE, sim |-> Float(0), score |-> 0,
              cache |-> cache_dict]
        ELSE IF ~hit /\ ~got.ok
        THEN [raised |-> FALSE, sim |-> Float(0), score |-> 0,
              cache |-> cache_dict]
        ELSE IF encode_fails \/ ~cos.ok
        THEN [raised |-> TRUE, sim |-> Float(0), score |-> 0, cache |-> cache]
        ELSE [raised |-> FALSE, sim |-> cos.val,
              score |-> clamp_similarity(cos.val), cache |-> cache]

evaluate_answer(user_answer, struggle_id, encode_fails) ==
    evaluate_answer_on(struggle_embedding_cache, user_answer, struggle_id,
                       encode_fails)

\* variant: the upsert overwrites the balance instead of adding to it
add_points_overwrite(g, u, amount) == Put(points, <<g, u>>, amount)

\* add_points(guild_id, user_id, amount)
add_points(g, u, amount) ==
    IF <<g, u>> \in DOMAIN points
    THEN [points EXCEPT ![<<g, u>>] = @ + amount]
    ELSE Put(points, <<g, u>>, amount)

\* get_points(guild_id, user_id)
get_points(g, u) == IF <<g, u>> \in DOMAIN points THEN points[<<g, u>>] ELSE 0

\* ------------------------------------------------------------ on_message
\* variant: on_message without its expiry check
expired_never(chal, n) == FALSE

\* "if now_cst() > chal["expires_at"]" of on_message
expired(chal, n) == n > chal.expires_at

\* variant: the handler goes on to its reply without the pop
pop_under_lock_skipped(t, rec) ==
    /\ tasks' = [tasks EXCEPT ![t] = [rec EXCEPT !.pc = "msg_reply"]]
    /\ UNCHANGED << active_challenges, lock_holder, lock_waiters >>

\* "async with _active_challenge_lock: active_challenges.pop(user_id, None)"
\* reached by task record rec: done at once when the lock is free, else the
\* task queues for the lock
pop_under_lock(t, rec) ==
    IF LockFree
    THEN /\ active_challenges' = Pop(active_challenges, rec.user)
         /\ tasks' = [tasks EXCEPT ![t] = [rec EXCEPT !.pc = "msg_reply"]]
         /\ UNCHANGED << lock_holder, lock_waiters >>
    ELSE /\ tasks' = [tasks EXCEPT ![t] = [rec EXCEPT !.pc = "msg_wait_lock"]]
         /\ lock_waiters' = Append(lock_waiters, t)
         /\ UNCHANGED << active_challenges, lock_holder >>

\* variant: the scoring call is made inside the lock
to_thread_locked(t, rec) ==
    /\ tasks' = [tasks EXCEPT ![t] = [rec EXCEPT !.pc = "msg_eval"]]
    /\ lock_holder' = IF LockFree THEN t ELSE lock_holder
    /\ UNCHANGED << active_challenges, lock_waiters >>

\* "await asyncio.to_thread(evaluate_answer, ...)": the handler hands the
\* scoring to a worker thread and waits, outside any lock
to_thread(t, rec) ==
    /\ tasks' = [tasks EXCEPT ![t] = [rec EXCEPT !.pc = "msg_eval"]]
    /\ UNCHANGED << active_challenges, lock_holder, lock_waiters >>

\* a message arrives: on_message up to its first await
on_message(t, g, u, content) ==
    /\ Spawn(t)
    /\ LET me == [IdleTask EXCEPT !.guild = g, !.user = u,
                                  !.answer = Strip(content)]
       IN  IF u \notin DOMAIN active_challenges
           THEN \* no challenge: only process_commands is left
                /\ tasks' = [tasks EXCEPT ![t] =
                       [me EXCEPT !.pc = "msg_commands", !.outcome = "NoActive",
                                  !.answer = ""]]
                /\ UNCHANGED << active_challenges, lock_holder, lock_waiters >>
           ELSE LET chal == active_challenges[u]
                    rec == [me EXCEPT !.chal = chal,
                               !.late = now > chal.expires_at,
                               !.word_gone = ~\E r \in struggle_words :
                                                 r.id = chal.struggle_id]
                IN  IF expired(chal, now)
                    THEN pop_under_lock(t, [rec EXCEPT !.outcome = "Expired",
                                                       !.answer = ""])
                    ELSE to_thread(t, rec)
    /\ UNCHANGED << now, struggle_words, struggle_embeddings, word_seq,
                    struggle_embedding_cache, user_last_word, points, sweeper,
                    next_inst,
                    probe, cursor,
                    completions, streaks >>

\* the worker thread of asyncio.to_thread runs evaluate_answer
evaluate(t) ==
    /\ tasks[t].pc = "msg_eval"
    /\ \E encode_fails \in BOOLEAN :
          LET r == evaluate_answer(tasks[t].answer, tasks[t].chal.struggle_id,
                                   encode_fails)
          IN  /\ struggle_embedding_cache' = r.cache
              /\ tasks' = [tasks EXCEPT ![t] =
                     [@ EXCEPT !.pc = "msg_scored", !.raised = r.raised,
                               !.score = r.score, !.answer = ""]]
    \* a cache miss executes the SELECT and fetches its row
    /\ cursor' = IF tasks[t].chal.struggle_id \in DOMAIN struggle_embedding_cache
                 THEN cursor ELSE <<>>
    /\ UNCHANGED << now, struggle_words, struggle_embeddings, word_seq,
                    user_last_word, active_challenges, lock_holder,
                    lock_waiters, points, sweeper, next_inst,
                    probe,
                    completions, streaks >>

\* the worker thread of evaluate_answer up to its c.execute: the cache has
\* no vector for the word, and the SELECT leaves its rows on the cursor
\* that all threads share
evaluate_execute(t) ==
    /\ tasks[t].pc = "msg_eval"
    /\ tasks[t].chal.struggle_id \notin DOMAIN struggle_embedding_cache
    /\ LET rows == { e \in struggle_embeddings :
                       e.struggle_id = tasks[t].chal.struggle_id }
       IN  cursor' = IF rows = {} THEN <<>> ELSE << CHOOSE e \in rows : TRUE >>
    /\ tasks' = [tasks EXCEPT ![t] = [@ EXCEPT !.pc = "msg_fetch"]]
    /\ UNCHANGED << now, struggle_words, struggle_embeddings, word_seq,
                    struggle_embedding_cache, user_last_word,
                    active_challenges, lock_holder, lock_waiters, points,
                    sweeper, next_inst, probe,
                    completions, streaks >>

\* evaluate_answer from its c.fetchone on; fetched: the row that fetchone
\* returned, as a sequence of one row, or <<>> for None
evaluate_answer_fetched(cache_dict, user_answer, struggle_id, fetched, encode_fails) ==
    LET got == get_embedding_array(fetched[1].embedding)
        cache == Put(cache_dict, struggle_id, got.arr)
        cos == CosineSimilarity(got.arr, Encode(user_answer))
    IN  IF fetched = <<>>
        THEN [raised |-> FALSE, sim |-> Float(0), score |-> 0,
              cache |-> cache_dict]
        ELSE IF ~got.ok
        THEN [raised |-> FALSE, sim |-> Float(0), score |-> 0,
              cache |-> cache_dict]
        ELSE IF encode_fails \/ ~cos.ok
        THEN [raised |-> TRUE, sim |-> Float(0), score |-> 0, cache |-> cache]
        ELSE [raised |-> FALSE, sim |-> cos.val,
              score |-> clamp_similarity(cos.val), cache |-> cache]

\* the worker thread from c.fetchone on: it takes the row that is on the
\* cursor now
evaluate_fetch(t) ==
    /\ tasks[t].pc = "msg_fetch"
    /\ \E encode_fails \in BOOLEAN :
          LET fetched == IF cursor = <<>> THEN <<>> ELSE << Head(cursor) >>
              r == evaluate_answer_fetched(struggle_embedding_cache,
                                           tasks[t].answer,
                                           tasks[t].chal.struggle_id,
                                           fetched, encode_fails)
          IN  /\ struggle_embedding_cache' = r.cache
              /\ tasks' = [tasks EXCEPT ![t] =
                     [@ EXCEPT !.pc = "msg_scored", !.raised = r.raised,
                               !.score = r.score, !.answer = ""]]
    /\ cursor' = IF cursor = <<>> THEN <<>> ELSE Tail(cursor)
    /\ UNCHANGED << now, struggle_words, struggle_embeddings, word_seq,
                    user_last_word, active_challenges, lock_holder,
                    lock_waiters, points, sweeper, next_inst, probe,
                    completions, streaks >>

\* variant: the except branch replies without removing the entry
on_message_failed_nopop(t, rec) ==
    /\ tasks' = [tasks EXCEPT ![t] =
           [rec EXCEPT !.pc = "msg_reply", !.outcome = "Error"]]
    /\ UNCHANGED << active_challenges, lock_holder, lock_waiters, points >>

\* the "except Exception" branch of on_message: the scoring call raised
on_message_failed(t, rec) ==
    /\ pop_under_lock(t, [rec EXCEPT !.outcome = "Error"])
    /\ UNCHANGED points

\* variant: a score equal to the threshold does not pass
passes_strict(score) == score > CHALLENGE_SIM_THRESHOLD

\* "if score >= CHALLENGE_SIM_THRESHOLD" of on_message
passes(score) == score >= CHALLENGE_SIM_THRESHOLD

\* on_message resumes with the score (or the exception) of the thread
on_message_scored(t) ==
    LET got == tasks[t]
        \* the reply still shows the score
        rec == [got EXCEPT !.raised = FALSE]
    IN  /\ got.pc = "msg_scored"
        /\ IF got.raised
           THEN on_message_failed(t, rec)
           ELSE IF passes(got.score)
           THEN /\ points' = add_points(rec.guild, rec.user, POINTS_PER_CORRECT)
                /\ pop_under_lock(t, [rec EXCEPT !.outcome = "Correct",
                                         !.awarded = POINTS_PER_CORRECT])
           ELSE /\ pop_under_lock(t, [rec EXCEPT !.outcome = "Incorrect"])
                /\ UNCHANGED points
        \* get_display_name_with_title and add_points query the database
        /\ cursor' = IF got.raised THEN cursor ELSE <<>>
        /\ UNCHANGED << now, struggle_words, struggle_embeddings, word_seq,
                        struggle_embedding_cache, user_last_word, sweeper,
                        next_inst,
                        probe,
                        completions, streaks >>

\* a queued on_message gets the lock, pops and releases it
on_message_resume(t) ==
    /\ tasks[t].pc = "msg_wait_lock"
    /\ Granted(t)
    /\ lock_waiters' = Tail(lock_waiters)
    /\ active_challenges' = Pop(active_challenges, tasks[t].user)
    /\ tasks' = [tasks EXCEPT ![t] = [@ EXCEPT !.pc = "msg_reply"]]
    /\ UNCHANGED << now, struggle_words, struggle_embeddings, word_seq,
                    struggle_embedding_cache, user_last_word, lock_holder,
                    points, sweeper, next_inst,
                    probe, cursor,
                    completions, streaks >>

\* message.channel.send returns, bot.process_commands runs and the handler
\* ends; msg_commands: a message that met no challenge has only
\* process_commands to run
on_message_done(t) ==
    /\ tasks[t].pc \in {"msg_reply", "msg_commands"}
    /\ tasks' = [tasks EXCEPT ![t] = IdleTask]
    /\ UNCHANGED << now, struggle_words, struggle_embeddings, word_seq,
                    struggle_embedding_cache, user_last_word,
                    active_challenges, lock_holder, lock_waiters, points,
                    sweeper, next_inst,
                    probe, cursor,
                    completions, streaks >>

\* ------------------------------------------------------------ sweeper
\* variant: a sweeper that finds nothing to remove
sweep_expired_never(chal, n) == FALSE

\* variant: a sweeper that removes every entry
sweep_expired_all(chal, n) == TRUE

\* "if now > chal["expires_at"]" of _challenge_sweeper
sweep_expired(chal, n) == n > chal.expires_at

\* the critical section of _challenge_sweeper, with the "now" it read
sweep_locked(n) ==
    LET to_remove == { uid \in DOMAIN active_challenges :
                         sweep_expired(active_challenges[uid], n) }
        gone == { active_challenges[uid].inst : uid \in to_remove }
    IN  /\ active_challenges' =
              [uid \in DOMAIN active_challenges \ to_remove |->
                  active_challenges[uid]]
        \* history: the handlers that hold a challenge removed here
        /\ tasks' = [t \in Tasks |->
              IF tasks[t].chal.inst \in gone
              THEN [tasks[t] EXCEPT !.reaped = TRUE] ELSE tasks[t]]

\* one run of the loop body up to its first await
challenge_sweeper ==
    /\ sweeper.pc = "idle"
    /\ IF LockFree
       THEN /\ sweep_locked(now)
            /\ UNCHANGED << sweeper, lock_waiters >>
       ELSE /\ sweeper' = [pc |-> "wait_lock", now |-> now]
            /\ lock_waiters' = Append(lock_waiters, Sweeper)
            /\ UNCHANGED << active_challenges, tasks >>
    /\ UNCHANGED << now, struggle_words, struggle_embeddings, word_seq,
                    struggle_embedding_cache, user_last_word, lock_holder,
                    points, next_inst,
                    probe, cursor,
                    completions, streaks >>

\* the queued sweeper gets the lock
challenge_sweeper_resume ==
    /\ sweeper.pc = "wait_lock"
    /\ Granted(Sweeper)
    /\ lock_waiters' = Tail(lock_waiters)
    /\ sweep_locked(sweeper.now)
    /\ sweeper' = [pc |-> "idle", now |-> 0]
    /\ UNCHANGED << now, struggle_words, struggle_embeddings, word_seq,
                    struggle_embedding_cache, user_last_word, lock_holder,
                    points, next_inst,
                    probe, cursor,
                    completions, streaks >>

\* ------------------------------------------------------------ restart
\* the process is started again: the module-level dicts and the lock are
\* new, the database file is kept
restart ==
    /\ struggle_embedding_cache' = EmptyDict
    /\ user_last_word' = EmptyDict
    /\ active_challenges' = EmptyDict
    /\ lock_holder' = Nobody
    /\ lock_waiters' = <<>>
    /\ tasks' = [t \in Tasks |-> IdleTask]
    /\ sweeper' = [pc |-> "idle", now |-> 0]
    /\ UNCHANGED << now, struggle_words, struggle_embeddings, word_seq, points,
                    next_inst,
                    probe,
                    completions, streaks >>
    /\ executed

Next ==
    \/ Tick
    \/ struggle_add(RawWords, Definitions, MaxWordId)
    \/ struggle_remove(RawWords)
    \/ \E t \in Tasks, g \in Guilds, u \in Users : challenge(t, g, u)
    \/ \E t \in Tasks : challenge_resume(t)
    \/ \E t \in Tasks : challenge_replied(t)
    \/ \E t \in Tasks, g \in Guilds, u \in Users, a \in Answers :
          on_message(t, g, u, a)
    \/ \E t \in Tasks : evaluate(t)
    \/ \E t \in Tasks : on_message_scored(t)
    \/ \E t \in Tasks : on_message_resume(t)
    \/ \E t \in Tasks : on_message_done(t)
    \/ challenge_sweeper
    \/ challenge_sweeper_resume
    \/ restart

Spec == Init /\ [][Next]_vars

\* the event loop runs every coroutine that can run: the clock advances, the
\* sweeper loop keeps running, a reply that was sent returns, and a
\* coroutine granted the lock goes on
SpecLive ==
    /\ Spec
    /\ WF_vars(Tick)
    /\ WF_vars(challenge_sweeper)
    /\ WF_vars(challenge_sweeper_resume)
    /\ \A t \in Tasks :
          /\ WF_vars(challenge_replied(t))
          /\ WF_vars(challenge_resume(t))
          /\ WF_vars(on_message_resume(t))

\* ------------------------------------------------------------ two users
\* every handler slot serves a user of its own (user t writes to slot t), so
\* that the handlers of different users overlap; each user has one word
struggle_add_for(u) ==
    /\ get_user_struggle_words(1, u) = {}
    /\ add_struggle_word(1, u, "kitab", "book", FALSE)
    /\ UNCHANGED << now, user_last_word, active_challenges, lock_holder,
                    lock_waiters, points, tasks, sweeper, next_inst,
                    probe,
                    completions, streaks >>
    /\ executed

NextOverlap ==
    \/ Tick
    \/ \E t \in Tasks : struggle_add_for(t)
    \/ \E t \in Tasks : challenge(t, 1, t)
    \/ \E t \in Tasks : challenge_resume(t)
    \/ \E t \in Tasks : challenge_replied(t)
    \/ \E t \in Tasks, a \in Answers : on_message(t, 1, t, a)
    \/ \E t \in Tasks : evaluate(t)
    \/ \E t \in Tasks : on_message_scored(t)
    \/ \E t \in Tasks : on_message_resume(t)
    \/ \E t \in Tasks : on_message_done(t)
    \/ challenge_sweeper
    \/ challenge_sweeper_resume

SpecOverlap == Init /\ [][NextOverlap]_vars

\* ------------------------------------------------------------ shared cursor
\* the worker threads of asyncio.to_thread and the event loop thread use the
\* one cursor c of the connection (check_same_thread=False): a thread switch
\* may come between the c.execute and the c.fetchone of evaluate_answer.
\* The statements of the event loop thread are taken whole.
NextCursor ==
    \/ struggle_add(RawWords, Definitions, MaxWordId)
    \/ restart
    \/ \E t \in Tasks, g \in Guilds, u \in Users : challenge(t, g, u)
    \/ \E t \in Tasks : challenge_resume(t)
    \/ \E t \in Tasks : challenge_replied(t)
    \/ \E t \in Tasks, g \in Guilds, u \in Users, a \in Answers :
          on_message(t, g, u, a)
    \/ \E t \in Tasks : evaluate(t)
    \/ \E t \in Tasks : evaluate_execute(t)
    \/ \E t \in Tasks : evaluate_fetch(t)
    \/ \E t \in Tasks : on_message_scored(t)
    \/ \E t \in Tasks : on_message_resume(t)
    \/ \E t \in Tasks : on_message_done(t)

SpecCursor == Init /\ [][NextCursor]_vars

\* ------------------------------------------------------------ scoring runs
\* one handler at a time, with definitions and answers of every similarity:
\* equal to, just under and over the threshold, negative, and over 1
ScoreDefinitions == {"book", "dog"}
ScoreAnswers == {"book", "car", "tome", "leaflet", "unbook", "dog"}

NextScore ==
    \/ struggle_add(RawWords, ScoreDefinitions, MaxWordId)
    \/ \E g \in Guilds, u \in Users : challenge(1, g, u)
    \/ challenge_replied(1)
    \/ \E g \in Guilds, u \in Users, a \in ScoreAnswers :
          on_message(1, g, u, a)
    \/ evaluate(1)
    \/ on_message_scored(1)
    \/ on_message_done(1)
    \/ restart

SpecScore == Init /\ [][NextScore]_vars

\* ------------------------------------------------------------ scoring calls
\* evaluate_answer and its clamp called on their own, on every store the
\* word commands leave behind
\* the similarities handed to the clamp: as far under 0 as over 1, and NaN
MaxSim == 110
SimValues == { Float(x) : x \in (100 - MaxSim)..MaxSim } \cup {NaN}

evaluate_answer_call ==
    /\ \E id \in 1..MaxWordId, a \in ScoreAnswers, f \in BOOLEAN :
          LET r == evaluate_answer(a, id, f)
          IN  /\ probe' = [op |-> "evaluate_answer", sim |-> r.sim,
                           raised |-> r.raised, score |-> r.score]
              /\ struggle_embedding_cache' = r.cache
    /\ UNCHANGED << now, struggle_words, struggle_embeddings, word_seq,
                    user_last_word, active_challenges, lock_holder,
                    lock_waiters, points, tasks, sweeper, next_inst,
                    cursor,
                    completions, streaks >>

clamp_similarity_call ==
    /\ \E x \in SimValues :
          probe' = [op |-> "clamp_similarity", sim |-> x, raised |-> FALSE,
                    score |-> clamp_similarity(x)]
    /\ UNCHANGED << now, struggle_words, struggle_embeddings, word_seq,
                    struggle_embedding_cache, user_last_word,
                    active_challenges, lock_holder, lock_waiters, points,
                    tasks, sweeper, next_inst,
                    cursor,
                    completions, streaks >>

NextEval ==
    \/ struggle_add(RawWords, ScoreDefinitions, MaxWordId)
    \/ struggle_remove(RawWords)
    \/ restart
    \/ evaluate_answer_call
    \/ clamp_similarity_call

SpecEval == Init /\ [][NextEval]_vars

\* ------------------------------------------------------------ codec calls
\* arr.tobytes() and get_embedding_array called on their own, on the vectors
\* of the texts and on vectors of every length up to MaxCodecLen; an element
\* stands for the 32 bits of a float32.  The bytes read back are the bytes
\* written or a prefix of them (a blob cut short in the database file).
MaxCodecLen == 2
CodecElems == {-2147483647, -65536, -1, 0, 1, 256, 65536, 2147483647}
CodecVectors ==
    { Encode(text) : text \in ScoreAnswers }
        \cup UNION { [1..n -> CodecElems] : n \in 0..MaxCodecLen }

NoArr == [ok |-> FALSE, arr |-> <<>>]

InitCodec ==
    /\ probe \in { [op |-> "", vec |-> v, blob |-> <<>>, res |-> NoArr] :
                      v \in CodecVectors }
    /\ now = 0
    /\ struggle_words = {}
    /\ struggle_embeddings = {}
    /\ word_seq = 0
    /\ struggle_embedding_cache = EmptyDict
    /\ user_last_word = EmptyDict
    /\ active_challenges = EmptyDict
    /\ lock_holder = Nobody
    /\ lock_waiters = <<>>
    /\ points = EmptyDict
    /\ tasks = [t \in Tasks |-> IdleTask]
    /\ sweeper = [pc |-> "idle", now |-> 0]
    /\ next_inst = 1
    /\ cursor = <<>>
    /\ completions = <<>>
    /\ streaks = EmptyDict

\* the last two lines of embed_text
tobytes_call ==
    /\ probe.op = ""
    /\ probe' = [probe EXCEPT !.op = "tobytes", !.blob = ToBytes(probe.vec)]
    /\ UNCHANGED << now, struggle_words, struggle_embeddings, word_seq,
                    struggle_embedding_cache, user_last_word,
                    active_challenges, lock_holder, lock_waiters, points,
                    tasks, sweeper, next_inst,
                    cursor,
                    completions, streaks >>

get_embedding_array_call ==
    /\ probe.op = "tobytes"
    /\ \E k \in 1..Len(probe.blob) \cup {Len(probe.blob)} :
          LET blob == SubSeq(probe.blob, 1, k)
          IN  probe' = [probe EXCEPT !.op = "frombuffer", !.blob = blob,
                                     !.res = get_embedding_array(blob)]
    /\ UNCHANGED << now, struggle_words, struggle_embeddings, word_seq,
                    struggle_embedding_cache, user_last_word,
                    active_challenges, lock_holder, lock_waiters, points,
                    tasks, sweeper, next_inst,
                    cursor,
                    completions, streaks >>

NextCodec ==
    \/ tobytes_call
    \/ get_embedding_array_call

SpecCodec == InitCodec /\ [][NextCodec]_vars

\* ------------------------------------------------------------ word lists
\* one handler at a time, with several words per owner, spelled with
\* capitals and with blanks around them
MaxStoreId == 2
StoreWords == {"kitab", "Kitab", " kitab", "qalam"}

NextStore ==
    \/ struggle_add(StoreWords, Definitions, MaxStoreId)
    \/ struggle_remove(StoreWords)
    \/ \E g \in Guilds, u \in Users : challenge(1, g, u)
    \/ challenge_replied(1)
    \/ \E g \in Guilds, u \in Users, a \in Answers : on_message(1, g, u, a)
    \/ evaluate(1)
    \/ on_message_scored(1)
    \/ on_message_done(1)
    \/ restart

SpecStore == Init /\ [][NextStore]_vars

\* ------------------------------------------------------------ selection calls
\* get_random_struggle_word called again and again (every call is the pick
\* of a /challenge whose predecessor was resolved) on word lists that stay
\* as they are: each of the word ids issued so far belongs to one owner
\* (guild, user) or was removed
MaxPickGuilds == 2
MaxPickWords == 3
PickGuilds == 1..MaxPickGuilds
PickIds == 1..MaxPickWords
PickOwners == (PickGuilds \X Users) \cup {<< 0, 0 >>}

PickWord(id) ==
    CASE id = 1 -> "kitab"
      [] id = 2 -> "qalam"
      [] OTHER -> "bab"

\* no call yet; last: what the calls returned last, by owner
NoPick == [op |-> "", guild |-> 0, user |-> 0, id |-> 0, last |-> EmptyDict]

InitPick ==
    /\ \E owner \in [PickIds -> PickOwners] :
          LET kept == { i \in PickIds : owner[i] # << 0, 0 >> }
          IN  /\ struggle_words =
                    { [ id |-> i, guild_id |-> owner[i][1],
                        user_id |-> owner[i][2], word |-> PickWord(i),
                        definition |-> "book" ] : i \in kept }
              /\ struggle_embeddings =
                    { [ struggle_id |-> i, embedding |-> embed_text("book") ] :
                        i \in kept }
    /\ word_seq = MaxPickWords
    /\ struggle_embedding_cache =
          [i \in PickIds |-> get_embedding_array(embed_text("book")).arr]
    /\ probe = NoPick
    /\ now = 0
    /\ user_last_word = EmptyDict
    /\ active_challenges = EmptyDict
    /\ lock_holder = Nobody
    /\ lock_waiters = <<>>
    /\ points = EmptyDict
    /\ tasks = [t \in Tasks |-> IdleTask]
    /\ sweeper = [pc |-> "idle", now |-> 0]
    /\ next_inst = 1
    /\ cursor = <<>>
    /\ completions = <<>>
    /\ streaks = EmptyDict

\* one call that returns the row of the given id (0: returns None)
get_random_struggle_word_call(g, u, id) ==
    /\ IF get_random_struggle_word(g, u) = {}
       THEN id = 0 /\ UNCHANGED user_last_word
       ELSE /\ \E r \in get_random_struggle_word(g, u) : r.id = id
            /\ user_last_word' = Put(user_last_word, u, id)
    /\ probe' = [op |-> "get_random_struggle_word", guild |-> g, user |-> u,
                 id |-> id,
                 last |-> IF id = 0 THEN probe.last
                          ELSE Put(probe.last, << g, u >>, id)]
    /\ UNCHANGED << now, struggle_words, struggle_embeddings, word_seq,
                    struggle_embedding_cache, active_challenges, lock_holder,
                    lock_waiters, points, tasks, sweeper, next_inst,
                    cursor,
                    completions, streaks >>

NextPick ==
    \E g \in PickGuilds, u \in Users, id \in 0..MaxPickWords :
        get_random_struggle_word_call(g, u, id)

SpecPick == InitPick /\ [][NextPick]_vars

\* random.choice is fair: a row that can be drawn again and again is drawn
SpecPickFair ==
    /\ SpecPick
    /\ \A g \in PickGuilds, u \in Users, id \in PickIds :
          SF_vars(get_random_struggle_word_call(g, u, id))

\* ------------------------------------------------------------ owner scopes
\* one user who is a member of several guilds, one handler at a time: words
\* are added and removed, challenges opened and answered in each guild
MaxScopeId == 3
ScopeWords == {"kitab", "qalam"}

\* /struggle_add in guild g
struggle_add_in(g, u) ==
    /\ \E w \in ScopeWords :
          /\ \/ word_seq < MaxScopeId
             \/ \E r \in get_user_struggle_words(g, u) : r.word = Lower(w)
          /\ add_struggle_word(g, u, w, "book", FALSE)
    /\ UNCHANGED << now, user_last_word, active_challenges, lock_holder,
                    lock_waiters, points, tasks, sweeper, next_inst,
                    probe,
                    completions, streaks >>
    /\ executed

\* /struggle_remove in guild g
struggle_remove_in(g, u) ==
    /\ \E w \in ScopeWords :
          LET r == remove_struggle_word(g, u, w)
          IN  /\ struggle_words' = r.words
              /\ struggle_embeddings' = r.embeddings
              /\ struggle_embedding_cache' = r.cache
    /\ UNCHANGED << now, word_seq, user_last_word, active_challenges,
                    lock_holder, lock_waiters, points, tasks, sweeper,
                    next_inst, probe,
                    completions, streaks >>
    /\ executed

NextScopes ==
    \/ \E g \in PickGuilds, u \in Users : struggle_add_in(g, u)
    \/ \E g \in PickGuilds, u \in Users : struggle_remove_in(g, u)
    \/ \E g \in PickGuilds, u \in Users : challenge(1, g, u)
    \/ challenge_replied(1)
    \/ \E g \in PickGuilds, u \in Users, a \in Answers : on_message(1, g, u, a)
    \/ evaluate(1)
    \/ on_message_scored(1)
    \/ on_message_done(1)

SpecScopes == Init /\ [][NextScopes]_vars

\* ------------------------------------------------------------ daily check-in
\* dates are counted in days: isoformat() names each day by one string, and
\* record_completion only tests dates for equality with today and yesterday
MaxDays == 2
MaxCompletions == 4
SecondsPerDay == 86400
\* last_done_date of a row that /set_streak created
NoDate == -1
StreakAmounts == {0, 5}

\* today_cst_str()
today_cst_str == now \div SecondsPerDay

\* the completions of user u in guild g on a date
completions_on(g, u, date_str) ==
    { i \in 1..Len(completions) :
          /\ completions[i].guild_id = g
          /\ completions[i].user_id = u
          /\ completions[i].date = date_str }

\* the streak row that record_completion writes
streak_row(g, u, date_str) ==
    IF <<g, u>> \in DOMAIN streaks
    THEN LET row == streaks[<<g, u>>]
         IN  IF row.last_done_date = date_str THEN row
             ELSE [ streak |-> IF row.last_done_date = date_str - 1
                               THEN row.streak + 1 ELSE 1,
                    last_done_date |-> date_str,
                    total_completions |-> row.total_completions + 1 ]
    ELSE [ streak |-> 1, last_done_date |-> date_str, total_completions |-> 1 ]

\* variant: record_completion without its look at the day's completions
record_completion_unchecked(g, u, date_str) ==
    [ success |-> TRUE,
      completions |-> Append(completions,
                             [guild_id |-> g, user_id |-> u, date |-> date_str]),
      streaks |-> Put(streaks, <<g, u>>, streak_row(g, u, date_str)) ]

\* record_completion(guild_id, user, date_str, time_str): its return value and
\* the tables it leaves
record_completion(g, u, date_str) ==
    IF completions_on(g, u, date_str) # {}
    THEN [ success |-> FALSE, completions |-> completions, streaks |-> streaks ]
    ELSE [ success |-> TRUE,
           completions |-> Append(completions,
                                  [guild_id |-> g, user_id |-> u,
                                   date |-> date_str]),
           streaks |-> Put(streaks, <<g, u>>, streak_row(g, u, date_str)) ]

\* /done, up to its reply: no await lies between record_completion and
\* add_points
done_cmd(t, g, u) ==
    /\ tasks[t].pc = "idle"
    /\ Len(completions) < MaxCompletions
    /\ LET done == record_completion(g, u, today_cst_str)
       IN  /\ completions' = done.completions
           /\ streaks' = done.streaks
           /\ points' = IF done.success THEN add_points(g, u, DONE_POINTS)
                        ELSE points
           /\ tasks' = [tasks EXCEPT ![t] =
                  [ IdleTask EXCEPT !.pc = "done_reply", !.guild = g,
                        !.user = u,
                        !.outcome = IF done.success THEN "done" ELSE "already",
                        !.awarded = IF done.success THEN DONE_POINTS ELSE 0 ]]
    /\ executed
    /\ UNCHANGED << now, struggle_words, struggle_embeddings, word_seq,
                    struggle_embedding_cache, user_last_word,
                    active_challenges, lock_holder, lock_waiters, sweeper,
                    next_inst, probe >>

\* the reply of /done was sent
done_replied(t) ==
    /\ tasks[t].pc = "done_reply"
    /\ tasks' = [tasks EXCEPT ![t] = IdleTask]
    /\ UNCHANGED << now, struggle_words, struggle_embeddings, word_seq,
                    struggle_embedding_cache, user_last_word,
                    active_challenges, lock_holder, lock_waiters, points,
                    sweeper, next_inst, probe, cursor, completions, streaks >>

\* /set_streak by an owner of the bot, up to its reply
set_streak_cmd(g, u, amount) ==
    /\ streaks' = IF <<g, u>> \in DOMAIN streaks
                  THEN [streaks EXCEPT ![<<g, u>>].streak = amount]
                  ELSE Put(streaks, <<g, u>>,
                           [ streak |-> amount, last_done_date |-> NoDate,
                             total_completions |-> 0 ])
    /\ executed
    /\ UNCHANGED << now, struggle_words, struggle_embeddings, word_seq,
                    struggle_embedding_cache, user_last_word,
                    active_challenges, lock_holder, lock_waiters, points,
                    tasks, sweeper, next_inst, probe, completions >>

\* the calendar moves on by a day
DayPasses ==
    /\ today_cst_str < MaxDays
    /\ now' = now + SecondsPerDay
    /\ UNCHANGED << struggle_words, struggle_embeddings, word_seq,
                    struggle_embedding_cache, user_last_word,
                    active_challenges, lock_holder, lock_waiters, points,
                    tasks, sweeper, next_inst, probe, cursor, completions,
                    streaks >>

NextDone ==
    \/ \E t \in Tasks, g \in PickGuilds, u \in Users : done_cmd(t, g, u)
    \/ \E t \in Tasks : done_replied(t)
    \/ \E g \in PickGuilds, u \in Users, amount \in StreakAmounts :
          set_streak_cmd(g, u, amount)
    \/ DayPasses

SpecDone == Init /\ [][NextDone]_vars

\* ============================================================ properties
\* a step in which handler t of /challenge leaves its critical section
OpenDecided(t) ==
    /\ tasks[t].pc \in {"idle", "ch_wait_lock"}
    /\ tasks'[t].pc \in {"ch_reply_active", "ch_reply_nowords", "ch_reply_question"}

\* a step in which a message reaches on_message as handler t
MsgArrives(t) ==
    /\ tasks[t].pc = "idle"
    /\ tasks'[t].pc \in {"msg_commands", "msg_eval", "msg_wait_lock", "msg_reply"}

\* a step in which handler t of on_message resumes with its scoring result
MsgScored(t) ==
    /\ tasks[t].pc = "msg_scored"
    /\ tasks'[t].pc \in {"msg_wait_lock", "msg_reply"}

\* the challenge that handler t read is still the user's entry
HoldsEntry(t) ==
    /\ tasks[t].user \in DOMAIN active_challenges
    /\ active_challenges[tasks[t].user].inst = tasks[t].chal.inst

Answered(t) == tasks[t].outcome \in {"Correct", "Incorrect"}

\* the term as the word store is to normalise it: trimmed and case-folded
Normalized(term) == Lower(Strip(term))

\* how on_message resolves a scoring result
Resolution(res) ==
    IF res.raised THEN "Error"
    ELSE IF res.score >= CHALLENGE_SIM_THRESHOLD THEN "Correct"
    ELSE "Incorrect"

\* C1 At-most-one-active: an Open that finds an entry for its user is
\* rejected as already active and leaves the live map as it is; an Open that
\* finds none (and finds a word) installs a fresh entry that no other Open
\* has installed.
C1_AtMostOneActive ==
    [][ \A t \in Tasks : OpenDecided(t) =>
          LET u == tasks'[t].user
              g == tasks'[t].guild
          IN  /\ u \in DOMAIN active_challenges =>
                    /\ tasks'[t].outcome = "AlreadyActive"
                    /\ active_challenges' = active_challenges
              /\ (u \notin DOMAIN active_challenges
                    /\ get_user_struggle_words(g, u) # {}) =>
                    /\ tasks'[t].outcome = "Opened"
                    /\ u \in DOMAIN active_challenges'
                    /\ active_challenges'[u].inst = next_inst
                    /\ \A v \in DOMAIN active_challenges :
                          /\ v \in DOMAIN active_challenges'
                          /\ active_challenges'[v] = active_challenges[v]
                    /\ \A o \in Tasks \ {t} :
                          tasks'[o].chal.inst # next_inst
    ]_vars

\* C1 witness: of two Opens for one user, one installed the entry and the
\* other is being rejected
C1_Witness ==
    \E t1, t2 \in Tasks :
        /\ tasks[t1].pc = "ch_reply_question"
        /\ tasks[t2].pc = "ch_reply_active"
        /\ tasks[t1].user = tasks[t2].user
        /\ HoldsEntry(t1)

\* C2 Single attempt: no challenge is scored (Correct or Incorrect) by two
\* answer messages.
C2_SingleAttempt ==
    \A t1, t2 \in Tasks :
        (t1 # t2 /\ tasks[t1].chal.inst = tasks[t2].chal.inst)
            => ~(Answered(t1) /\ Answered(t2))

\* C3 Resolved exactly once: no challenge is both removed by the sweeper as
\* expired and answered (scored as Correct or Incorrect).
C3_ResolvedOnce ==
    \A t \in Tasks : ~(tasks[t].reaped /\ Answered(t))

\* C4 Expiry precedence: a message handled when now > expires_at of the
\* user's entry is never scored and awards no points; it takes the expired
\* path.
C4_ExpiryPrecedence ==
    /\ [](\A t \in Tasks : tasks[t].late =>
              /\ tasks[t].outcome = "Expired"
              /\ tasks[t].pc \in {"msg_wait_lock", "msg_reply"}
              /\ tasks[t].awarded = 0)
    /\ [][ \A t \in Tasks :
             (/\ MsgArrives(t)
              /\ tasks'[t].user \in DOMAIN active_challenges
              /\ now > active_challenges[tasks'[t].user].expires_at)
                 => /\ tasks'[t].late
                    /\ tasks'[t].outcome = "Expired"
                    /\ points' = points ]_vars
    /\ [][ \A t \in Tasks :
             (tasks[t].late /\ tasks'[t].pc # tasks[t].pc) => points' = points
       ]_vars

\* C4 witness: an answer that arrived after the expiry, before any sweep,
\* is being told that the challenge expired
C4_Witness ==
    \E t \in Tasks :
        /\ tasks[t].late
        /\ tasks[t].pc = "msg_reply"
        /\ tasks[t].outcome = "Expired"
        /\ ~tasks[t].reaped

\* C5 Open treats an expired entry that was not swept yet as absent: it
\* installs a new challenge (the user has words).
C5_OpenIgnoresExpiredEntry ==
    [][ \A t \in Tasks :
          (/\ OpenDecided(t)
           /\ tasks'[t].user \in DOMAIN active_challenges
           /\ now > active_challenges[tasks'[t].user].expires_at
           /\ get_user_struggle_words(tasks'[t].guild, tasks'[t].user) # {})
              => tasks'[t].outcome = "Opened" ]_vars

\* C6 Every resolving outcome of Submit leaves the user Idle: once the
\* handler is past its pop (replying, then finished), the challenge it
\* handled is not in the live map, whatever the outcome.
C6_SubmitLeavesIdle ==
    \A t \in Tasks : tasks[t].pc = "msg_reply" =>
        /\ tasks[t].outcome \in {"Correct", "Incorrect", "Expired", "Error"}
        /\ ~HoldsEntry(t)

\* C6 witness: a wrong answer was resolved and the user has no entry
C6_Witness ==
    \E t \in Tasks :
        /\ tasks[t].pc = "msg_reply"
        /\ tasks[t].outcome = "Incorrect"
        /\ tasks[t].user \notin DOMAIN active_challenges

\* C7 A scoring call that raises still resolves the challenge: the handler
\* takes the error path, awards nothing, removes the entry and replies.
C7_ScoringErrorResolves ==
    /\ [](\A t \in Tasks : tasks[t].outcome = "Error" =>
              /\ tasks[t].pc \in {"msg_wait_lock", "msg_reply"}
              /\ tasks[t].awarded = 0
              /\ (tasks[t].pc = "msg_reply" => ~HoldsEntry(t)))
    /\ [][ \A t \in Tasks :
             (MsgScored(t) /\ tasks[t].raised)
                 => /\ tasks'[t].outcome = "Error"
                    /\ points' = points ]_vars

\* C7 witness: the scoring call raised and the error reply is being sent
C7_Witness ==
    \E t \in Tasks :
        /\ tasks[t].outcome = "Error"
        /\ tasks[t].pc = "msg_reply"
        /\ get_points(tasks[t].guild, tasks[t].user) = 0

\* C8 A challenge whose word was removed before the answer arrived is never
\* resolved as Correct and awards no points.
C8_RemovedWordNeverCorrect ==
    \A t \in Tasks : tasks[t].word_gone =>
        /\ tasks[t].outcome # "Correct"
        /\ tasks[t].awarded = 0

\* C9 After a resolution, a further Submit without an Open in between finds
\* no challenge: a resolution leaves the user without entry, only a
\* successful Open gives the user an entry, and a message that finds no
\* entry is not scored and changes neither the live map nor the points.
C9_NoSubmitAfterResolution ==
    /\ [][ \A t \in Tasks :
             (tasks[t].pc # "msg_reply" /\ tasks'[t].pc = "msg_reply")
                 => tasks'[t].user \notin DOMAIN active_challenges' ]_vars
    /\ [][ \A u \in Users :
             (u \notin DOMAIN active_challenges /\ u \in DOMAIN active_challenges')
                 => \E t \in Tasks : /\ OpenDecided(t)
                                     /\ tasks'[t].user = u
                                     /\ tasks'[t].outcome = "Opened" ]_vars
    /\ [][ \A t \in Tasks :
             (MsgArrives(t) /\ tasks'[t].user \notin DOMAIN active_challenges)
                 => /\ tasks'[t].pc = "msg_commands"
                    /\ tasks'[t].outcome = "NoActive"
                    /\ UNCHANGED << active_challenges, points >> ]_vars

\* C9 witness: after a Correct resolution the user's next message finds no
\* challenge
C9_Witness ==
    \E t \in Tasks :
        /\ tasks[t].outcome = "NoActive"
        /\ tasks[t].user \notin DOMAIN active_challenges
        /\ get_points(tasks[t].guild, tasks[t].user) >= POINTS_PER_CORRECT

\* C10 A Correct resolution adds exactly POINTS_PER_CORRECT to the balance
\* of the answering (guild, user) and to no other; every other step,
\* Incorrect, expired and failed resolutions included, leaves all balances
\* unchanged.
C10_PointsOnlyForCorrect ==
    [][ /\ \A t \in Tasks :
             (MsgScored(t) /\ tasks'[t].outcome = "Correct") =>
                 LET k == << tasks[t].guild, tasks[t].user >>
                 IN  /\ DOMAIN points' = DOMAIN points \cup {k}
                     /\ points'[k] = get_points(k[1], k[2]) + POINTS_PER_CORRECT
                     /\ \A j \in DOMAIN points \ {k} : points'[j] = points[j]
                     /\ tasks'[t].awarded = POINTS_PER_CORRECT
        /\ \A t \in Tasks :
             (tasks'[t].pc # tasks[t].pc
                /\ tasks'[t].outcome \in {"Incorrect", "Expired", "Error", "NoActive"})
                 => points' = points
        /\ points' # points =>
             \E t \in Tasks : MsgScored(t) /\ tasks'[t].outcome = "Correct"
    ]_vars

\* C10 witness: a second Correct answer of the user was credited on top of
\* the first
C10_Witness ==
    \E t \in Tasks :
        /\ tasks[t].outcome = "Correct"
        /\ tasks[t].pc = "msg_reply"
        /\ get_points(tasks[t].guild, tasks[t].user) = 2 * POINTS_PER_CORRECT

\* C11 as stated: every Open for an owner with zero words returns NoWords.
C11_ZeroWordsAlwaysNoWords ==
    [][ \A t \in Tasks :
          (/\ OpenDecided(t)
           /\ get_user_struggle_words(tasks'[t].guild, tasks'[t].user) = {})
              => tasks'[t].outcome = "NoWords" ]_vars

\* C11 An Open for a user without live entry whose owner has zero words is
\* rejected with NoWords and installs nothing (live map, last-served memory
\* and challenge identities stay as they are); an Add changes no live entry,
\* and once the owner has a word the Open of that user, still without live
\* entry, succeeds with one of the owner's words.
C11_NoWordsThenAdd ==
    /\ [][ \A t \in Tasks :
             (/\ OpenDecided(t)
              /\ tasks'[t].user \notin DOMAIN active_challenges
              /\ get_user_struggle_words(tasks'[t].guild, tasks'[t].user) = {})
                 => /\ tasks'[t].outcome = "NoWords"
                    /\ UNCHANGED << active_challenges, user_last_word,
                                    next_inst >> ]_vars
    /\ [][ struggle_words' # struggle_words
              => active_challenges' = active_challenges ]_vars
    /\ [][ \A t \in Tasks :
             (/\ OpenDecided(t)
              /\ tasks'[t].user \notin DOMAIN active_challenges
              /\ get_user_struggle_words(tasks'[t].guild, tasks'[t].user) # {})
                 => /\ tasks'[t].outcome = "Opened"
                    /\ tasks'[t].user \in DOMAIN active_challenges'
                    /\ \E r \in get_user_struggle_words(tasks'[t].guild,
                                                        tasks'[t].user) :
                          /\ active_challenges'[tasks'[t].user].struggle_id = r.id
                          /\ active_challenges'[tasks'[t].user].word = r.word
       ]_vars

\* C11 witness: an Open was rejected with NoWords (its reply is still being
\* sent), the owner then added a word, and the user's next Open is waiting
\* for its turn
C11_Witness ==
    \E t1, t2 \in Tasks :
        /\ tasks[t1].pc = "ch_reply_nowords"
        /\ tasks[t2].pc = "ch_wait_lock"
        /\ tasks[t2].user = tasks[t1].user
        /\ tasks[t2].guild = tasks[t1].guild
        /\ tasks[t1].user \notin DOMAIN active_challenges
        /\ get_user_struggle_words(tasks[t1].guild, tasks[t1].user) # {}

\* C12 Classification: a scored answer is resolved as Correct exactly when
\* its score is at least the threshold (0.50): a score equal to the
\* threshold is Correct, every score below it is Incorrect.
C12_Classification ==
    \A t \in Tasks :
        /\ tasks[t].outcome = "Correct" => tasks[t].score >= 50
        /\ tasks[t].outcome = "Incorrect" => tasks[t].score < 50
        /\ (tasks[t].pc \in {"msg_wait_lock", "msg_reply"}
              /\ tasks[t].outcome \notin {"Expired", "Error"})
               => /\ tasks[t].score >= 50 => tasks[t].outcome = "Correct"
                  /\ tasks[t].score < 50 => tasks[t].outcome = "Incorrect"

\* C12 witness: an answer whose score equals the threshold was resolved as
\* Correct and credited
C12_Witness ==
    \E t \in Tasks :
        /\ tasks[t].pc = "msg_reply"
        /\ tasks[t].score = CHALLENGE_SIM_THRESHOLD
        /\ tasks[t].outcome = "Correct"
        /\ tasks[t].awarded = POINTS_PER_CORRECT

\* C13 Similarity boundedness: every score evaluate_answer returns lies in
\* [0, 1]: a negative similarity is returned as 0, a similarity above 1 as
\* 1, a NaN similarity as 0, and a similarity within [0, 1] as it is.
C13_ScoreBounded ==
    (probe.op # "" /\ ~probe.raised) =>
        /\ probe.score \in 0..100
        /\ probe.sim.nan => probe.score = 0
        /\ (~probe.sim.nan /\ probe.sim.sim < 0) => probe.score = 0
        /\ (~probe.sim.nan /\ probe.sim.sim > 100) => probe.score = 100
        /\ (~probe.sim.nan /\ probe.sim.sim \in 0..100)
              => probe.score = probe.sim.sim

\* C13 witness: evaluate_answer met a negative similarity and returned 0
C13_Witness ==
    /\ probe.op = "evaluate_answer"
    /\ ~probe.raised
    /\ ~probe.sim.nan
    /\ probe.sim.sim < 0
    /\ probe.score = 0

\* C14 Every stored struggle word has a stored fingerprint, in every
\* reachable state, also after an Add whose embedding computation failed.
C14_WordHasFingerprint ==
    \A r \in struggle_words :
        \E e \in struggle_embeddings : e.struggle_id = r.id

\* C15 No orphan fingerprints: every stored fingerprint row references a
\* word that exists; a Remove takes the word and its fingerprint together.
C15_NoOrphanFingerprint ==
    \A e \in struggle_embeddings :
        \E r \in struggle_words : r.id = e.struggle_id

\* C15 witness: a word stored with its fingerprint (the cache still shows
\* it) was removed, and neither row is left
C15_Witness ==
    /\ word_seq >= 1
    /\ 1 \in DOMAIN struggle_embedding_cache
    /\ struggle_words = {}
    /\ struggle_embeddings = {}

\* C16 Idempotent removal: in every reachable state, Remove of a term the
\* owner does not have returns false and leaves the word table, the
\* fingerprint table and the fingerprint cache as they are.
C16_RemoveAbsent ==
    \A g \in Guilds, u \in Users, w \in RawWords :
        (~\E r \in get_user_struggle_words(g, u) : r.word = Lower(w)) =>
            LET res == remove_struggle_word(g, u, w)
            IN  /\ ~res.ok
                /\ res.words = struggle_words
                /\ res.embeddings = struggle_embeddings
                /\ res.cache = struggle_embedding_cache

\* C16 witness: the owner's word was removed; a second Remove of the term
\* returns false
C16_Witness ==
    /\ word_seq >= 1
    /\ struggle_words = {}
    /\ \E g \in Guilds, u \in Users, w \in RawWords :
          ~remove_struggle_word(g, u, w).ok

\* C17 Add normalises the term (trim, case fold) before the uniqueness
\* check: no owner holds two words with the same normalised term.
C17_UniqueNormalizedTerm ==
    \A r1, r2 \in struggle_words :
        (/\ r1.guild_id = r2.guild_id
         /\ r1.user_id = r2.user_id
         /\ Normalized(r1.word) = Normalized(r2.word)) => r1 = r2

\* C18 The fingerprint cache is invalidated on Remove: the keys of the cache
\* are ids of words that exist in the store.
C18_CacheKeysExist ==
    \A id \in DOMAIN struggle_embedding_cache :
        \E r \in struggle_words : r.id = id

\* C19 The cache is an optimisation only: an answer about to be scored gets
\* the outcome it would get in a run that started with an empty cache, in
\* which the cache holds nothing for the word at this point.
C19_CacheTransparent ==
    \A t \in Tasks : tasks[t].pc = "msg_eval" =>
        \A f \in BOOLEAN :
            Resolution(evaluate_answer_on(struggle_embedding_cache,
                           tasks[t].answer, tasks[t].chal.struggle_id, f))
              = Resolution(evaluate_answer_on(EmptyDict,
                           tasks[t].answer, tasks[t].chal.struggle_id, f))

\* C20 PickFor returns None for an owner with zero words, and the only word
\* of an owner with exactly one word, whatever the last-served memory holds.
C20_PickSingle ==
    \A g \in Guilds, u \in Users :
        LET rows == get_user_struggle_words(g, u)
        IN  /\ rows = {} => get_random_struggle_word(g, u) = {}
            /\ Cardinality(rows) = 1 => get_random_struggle_word(g, u) = rows

\* C20 witness: the owner's only word was served, answered and is served
\* again, although the memory names it as the last one served
C20_Witness ==
    \E t \in Tasks :
        /\ tasks[t].pc = "ch_reply_question"
        /\ tasks[t].chal.inst = 2
        /\ Cardinality(get_user_struggle_words(tasks[t].guild, tasks[t].user)) = 1
        /\ word_seq = 1
        /\ user_last_word[tasks[t].user] = tasks[t].chal.struggle_id
        /\ get_random_struggle_word(tasks[t].guild, tasks[t].user)
              = get_user_struggle_words(tasks[t].guild, tasks[t].user)

\* C21 For an owner (guild, user) with at least two words, two consecutive
\* picks for that owner never return the same word, whatever picks for other
\* owners happen in between.
C21_NoImmediateRepeat ==
    [][ \A g \in PickGuilds, u \in Users :
          (/\ probe'.guild = g /\ probe'.user = u /\ probe'.id # 0
           /\ probe' # probe
           /\ << g, u >> \in DOMAIN probe.last
           /\ Cardinality(get_user_struggle_words(g, u)) >= 2)
              => probe'.id # probe.last[<< g, u >>] ]_vars

\* C22 Selection fairness: for an owner with at least two words whose word
\* list stays as it is, repeated picks with a fair random choice return
\* every word of the owner again and again: the last-served memory excludes
\* no word for ever.
C22_EveryWordServed ==
    \A g \in PickGuilds, u \in Users, id \in PickIds :
        (/\ \E r \in get_user_struggle_words(g, u) : r.id = id
         /\ Cardinality(get_user_struggle_words(g, u)) >= 2)
            => []<>(/\ probe.op = "get_random_struggle_word"
                    /\ probe.guild = g
                    /\ probe.user = u
                    /\ probe.id = id)

\* C22 witness: an owner with three words was served the third one
C22_Witness ==
    \E g \in PickGuilds, u \in Users :
        /\ Cardinality(get_user_struggle_words(g, u)) = 3
        /\ probe.guild = g
        /\ probe.user = u
        /\ probe.id = 3
        /\ user_last_word[u] = 3

\* a step that is a run of the sweeper's critical section, n being the time
\* the run read when it started: after waiting for the lock, or at once
SweepStep(n) ==
    /\ user_last_word' = user_last_word
    /\ \/ /\ sweeper.pc = "wait_lock"
          /\ sweeper'.pc = "idle"
          /\ n = sweeper.now
       \/ /\ sweeper.pc = "idle"
          /\ sweeper' = sweeper
          /\ LockFree
          /\ active_challenges' # active_challenges
          /\ \A t \in Tasks : tasks'[t].pc = tasks[t].pc
          /\ n = now

\* C23 A sweep removes from the live map every entry with now >= expires_at
\* (the entry whose expires_at equals the sweep's now included) and no entry
\* with now < expires_at.
C23_SweepRemovesExpired ==
    [][ \A n \in 0..MaxTime : SweepStep(n) =>
          \A uid \in DOMAIN active_challenges :
              /\ n >= active_challenges[uid].expires_at
                    => uid \notin DOMAIN active_challenges'
              /\ n < active_challenges[uid].expires_at
                    => /\ uid \in DOMAIN active_challenges'
                       /\ active_challenges'[uid] = active_challenges[uid]
    ]_vars

\* C24 A stale challenge does not block its user for ever: with the sweeper
\* running and the clock advancing, every installed entry (whose expiry the
\* clock can pass) is eventually out of the live map, also when no answer
\* arrives; and an Open for a user without entry is not rejected as already
\* active.
C24_StaleEntrySwept ==
    /\ \A u \in Users :
          [](( /\ u \in DOMAIN active_challenges
               /\ active_challenges[u].expires_at + CHALLENGE_TIMEOUT_SECONDS
                     <= MaxTime )
                => <>(u \notin DOMAIN active_challenges))
    /\ [][ \A t \in Tasks :
             (OpenDecided(t) /\ tasks'[t].user \notin DOMAIN active_challenges)
                 => tasks'[t].outcome # "AlreadyActive" ]_vars

\* the sweeper removed the entry of a handler that still holds it, and the
\* user has no entry
C24_Witness ==
    \E t \in Tasks :
        /\ tasks[t].reaped
        /\ tasks[t].user \notin DOMAIN active_challenges

\* the scoring call of handler t is in flight: the worker thread runs or has
\* finished, and the handler has not resumed
Scoring(t) == tasks[t].pc \in {"msg_eval", "msg_scored"}

\* C25 The lock is not held while an answer is scored: a handler whose
\* scoring call is in flight neither holds the lock nor queues for it, so
\* the Open and the Submit of another user and the sweeper take the lock and
\* finish meanwhile.
C25_ScoringOutsideLock ==
    \A t \in Tasks :
        Scoring(t) =>
            /\ lock_holder # t
            /\ \A i \in 1..Len(lock_waiters) : lock_waiters[i] # t

\* handler 1 scores an answer to a challenge of time 0; since then the
\* sweeper removed that entry, and user 2 opened a challenge (after the
\* first expired) and had an answer to it scored and the entry popped
C25_Witness ==
    /\ tasks[1].pc = "msg_eval"
    /\ ~tasks[1].late
    /\ tasks[1].chal.expires_at = CHALLENGE_TIMEOUT_SECONDS
    /\ tasks[1].reaped
    /\ tasks[2].pc = "msg_reply"
    /\ tasks[2].user # tasks[1].user
    /\ tasks[2].outcome = "Correct"
    /\ tasks[2].chal.expires_at > 2 * CHALLENGE_TIMEOUT_SECONDS
    /\ lock_holder = Nobody

\* C26 Round trip of a fingerprint: get_embedding_array of the bytes that
\* embed_text wrote gives a vector of the same length whose elements equal
\* the elements of the vector that was written.
C26_RoundTrip ==
    (probe.op = "frombuffer" /\ probe.blob = ToBytes(probe.vec)) =>
        /\ probe.res.ok
        /\ Len(probe.res.arr) = Len(probe.vec)
        /\ \A i \in 1..Len(probe.vec) : probe.res.arr[i] = probe.vec[i]

\* a vector with a negative element and an element over 16 bits was written
\* and read back whole
C26_Witness ==
    /\ probe.op = "frombuffer"
    /\ probe.blob = ToBytes(probe.vec)
    /\ \E i, j \in 1..Len(probe.vec) :
          probe.vec[i] < 0 /\ probe.vec[j] >= 65536

\* C27 Reading back a blob that is corrupt or of the wrong length fails
\* with an error; it does not give a vector of another length.
C27_CorruptBlobFails ==
    (probe.op = "frombuffer" /\ probe.blob # ToBytes(probe.vec)) =>
        ~probe.res.ok

\* a step in which handler t of on_message takes the lock section of its
\* pop, after its scoring or after its wait for the lock
SubmitPops(t) ==
    /\ tasks[t].pc \in {"msg_scored", "msg_wait_lock"}
    /\ tasks'[t].pc = "msg_reply"

\* C28 A Submit removes only the challenge it read: when that one is gone
\* and the user has a new challenge in the live map, the pop of the
\* completing Submit leaves the new challenge there.
C28_SubmitRemovesOwnInstance ==
    [][ \A t \in Tasks :
          ( /\ SubmitPops(t)
            /\ tasks[t].user \in DOMAIN active_challenges
            /\ ~HoldsEntry(t) )
              => /\ tasks[t].user \in DOMAIN active_challenges'
                 /\ active_challenges'[tasks[t].user]
                       = active_challenges[tasks[t].user] ]_vars

\* the points credited so far, over all balances
RECURSIVE SumPoints(_)
SumPoints(keys) ==
    IF keys = {} THEN 0
    ELSE LET k == CHOOSE x \in keys : TRUE
         IN  points[k] + SumPoints(keys \ {k})

\* C29 Points are awarded at most once per opened challenge: the points
\* credited for answers never exceed POINTS_PER_CORRECT for each Open that
\* installed a challenge.
C29_PointsOncePerOpen ==
    SumPoints(DOMAIN points) <= POINTS_PER_CORRECT * (next_inst - 1)

\* handler t of /challenge waits for interaction.response.send_message
OpenReplying(t) ==
    tasks[t].pc \in {"ch_reply_active", "ch_reply_nowords", "ch_reply_question"}

\* C30 Open does not hold the lock while its reply is sent: on every path,
\* the two rejections included, the lock is released before the await on
\* the message delivery.
C30_OpenRepliesOutsideLock ==
    \A t \in Tasks : OpenReplying(t) => lock_holder # t

\* handler t of on_message met a challenge
MetChallenge(t) ==
    /\ tasks[t].pc \in {"msg_eval", "msg_scored", "msg_wait_lock", "msg_reply"}
    /\ tasks[t].chal.inst # 0

\* C31 An answer counts in the owner scope of its challenge: a message that
\* the user sends in another guild than the one of the challenge's word is
\* not matched with the challenge, so it neither resolves it nor credits
\* points in that guild.
C31_AnswerInOwnScope ==
    \A t \in Tasks :
        MetChallenge(t) =>
            \A r \in struggle_words :
                r.id = tasks[t].chal.struggle_id
                    => r.guild_id = tasks[t].guild /\ r.user_id = tasks[t].user

\* the entry of user b is the same before and after the step
EntryKept(b) ==
    /\ (b \in DOMAIN active_challenges) = (b \in DOMAIN active_challenges')
    /\ b \in DOMAIN active_challenges
          => active_challenges'[b] = active_challenges[b]

\* the user that handler t serves in a step of t
ActingUser(t) == IF tasks[t].pc = "idle" THEN tasks'[t].user ELSE tasks[t].user

LiveUsers == DOMAIN active_challenges \cup DOMAIN active_challenges'

\* C32 The live map is isolated per user: a step of an Open or a Submit for
\* user A leaves the entry of every other user as it is, and every other
\* step (the sweeper's) changes the live map only by removing entries that
\* have expired.
C32_PerUserIsolation ==
    [][ /\ \A t \in Tasks :
              tasks'[t].pc # tasks[t].pc
                  => \A b \in LiveUsers \ {ActingUser(t)} : EntryKept(b)
        /\ (\A t \in Tasks : tasks'[t].pc = tasks[t].pc)
              => \A b \in LiveUsers :
                    \/ EntryKept(b)
                    \/ /\ b \in DOMAIN active_challenges
                       /\ b \notin DOMAIN active_challenges'
                       /\ now >= active_challenges[b].expires_at
      ]_vars

\* the sweeper removed the expired entry of user 1 under a handler that
\* scores an answer to it, and left the entry of user 2, which has not
\* expired
C32_Witness ==
    /\ tasks[1].reaped
    /\ tasks[1].user = 1
    /\ 1 \notin DOMAIN active_challenges
    /\ 2 \in DOMAIN active_challenges
    /\ now <= active_challenges[2].expires_at
    /\ active_challenges[2].inst > tasks[1].chal.inst

\* a step in which the worker thread of handler t fetches its row
FetchStep(t) ==
    /\ tasks[t].pc = "msg_fetch"
    /\ tasks'[t].pc = "msg_scored"

\* C33 On a cache miss evaluate_answer fetches the fingerprint row of the
\* challenge's own word, whatever other handlers execute on the shared
\* cursor between its execute and its fetch.
C33_FetchesOwnRow ==
    [][ \A t \in Tasks :
          FetchStep(t) =>
              LET own == { e \in struggle_embeddings :
                             e.struggle_id = tasks[t].chal.struggle_id }
              IN  IF own = {} THEN cursor = <<>>
                  ELSE cursor # <<>> /\ Head(cursor) \in own ]_vars

\* the word rows of owner (g, u) in the table words, each with its
\* fingerprint rows in the table embeddings
OwnerRecords(words, embeddings, g, u) ==
    { [ row |-> r,
        fingerprints |-> { e \in embeddings : e.struggle_id = r.id } ] :
        r \in { x \in words : x.guild_id = g /\ x.user_id = u } }

\* the records of every other owner than (g, u) are as they were
OthersKept(g, u) ==
    \A h \in PickGuilds, v \in Users :
        << h, v >> # << g, u >>
            => OwnerRecords(struggle_words', struggle_embeddings', h, v)
                 = OwnerRecords(struggle_words, struggle_embeddings, h, v)

\* C34 Word records are scoped per owner: an owner who does not have a
\* term can add it, whoever else has it, and an Add or a Remove by one
\* owner leaves the words and the fingerprints of every other owner as
\* they were.
C34_OwnerScopedRecords ==
    [][ \A g \in PickGuilds, u \in Users :
          /\ (struggle_add_in(g, u) \/ struggle_remove_in(g, u))
                => OthersKept(g, u)
          /\ \A w \in ScopeWords :
                ( /\ add_struggle_word(g, u, w, "book", FALSE)
                  /\ ~\E r \in get_user_struggle_words(g, u) : r.word = Lower(w) )
                    => \E r \in struggle_words' \ struggle_words :
                          /\ r.guild_id = g /\ r.user_id = u
                          /\ r.word = Lower(w)
                          /\ \E e \in struggle_embeddings' :
                                e.struggle_id = r.id
      ]_vars

\* two owners have the same term, each with a fingerprint, and a third word
\* id was removed since
C34_Witness ==
    /\ \A g \in PickGuilds :
          \E r \in get_user_struggle_words(g, 1) :
              /\ r.word = "kitab"
              /\ \E e \in struggle_embeddings : e.struggle_id = r.id
    /\ Cardinality(struggle_words) < word_seq

\* C35 The selection memory is soft state: whatever _user_last_word holds
\* (nothing, the id of a word removed since, an id recorded in another
\* guild), get_random_struggle_word for an owner who has a word returns a
\* word of that owner, and never None.
C35_PickDespiteMemory ==
    \A g \in PickGuilds, u \in Users :
        get_user_struggle_words(g, u) # {} =>
            /\ get_random_struggle_word(g, u) # {}
            /\ \A r \in get_random_struggle_word(g, u) :
                  /\ r \in struggle_words
                  /\ r.guild_id = g /\ r.user_id = u

\* the memory holds the id of a word that was removed, and the user has
\* two words in one guild and none in the other
C35_Witness ==
    /\ 1 \in DOMAIN user_last_word
    /\ ~\E r \in struggle_words : r.id = user_last_word[1]
    /\ Cardinality(get_user_struggle_words(1, 1)) = 2
    /\ get_user_struggle_words(2, 1) = {}

\* a step in which handler t runs /done for user u in guild g
DoneStep(t, g, u) ==
    /\ tasks[t].pc = "idle"
    /\ tasks'[t].pc = "done_reply"
    /\ tasks'[t].guild = g
    /\ tasks'[t].user = u

\* C36: the daily check-in is awarded at most once per day: for each guild,
\* user and date, the first /done records one completion and adds 10 points,
\* and every later /done on the same date records nothing and leaves the
\* points balance, the streak and the total completions unchanged.
C36_DoneOncePerDay ==
    [][ \A t \in Tasks, g \in PickGuilds, u \in Users :
          DoneStep(t, g, u) =>
              IF completions_on(g, u, today_cst_str) = {}
              THEN /\ Len(completions') = Len(completions) + 1
                   /\ completions_on(g, u, today_cst_str)' = {Len(completions')}
                   /\ get_points(g, u)' = get_points(g, u) + 10
              ELSE /\ completions' = completions
                   /\ points' = points
                   /\ streaks' = streaks ]_vars

\* a /done found the day already marked: the day's one completion, its 10
\* points and the streak of two days stand
C36_Witness ==
    \E t \in Tasks, g \in PickGuilds, u \in Users :
        /\ tasks[t].pc = "done_reply"
        /\ tasks[t].guild = g
        /\ tasks[t].user = u
        /\ tasks[t].outcome = "already"
        /\ today_cst_str = 1
        /\ Cardinality(completions_on(g, u, 1)) = 1
        /\ Cardinality(completions_on(g, u, 0)) = 1
        /\ get_points(g, u) = 20
        /\ streaks[<<g, u>>].streak = 2
        /\ streaks[<<g, u>>].total_completions = 2

====
